---- MODULE Spec2Model ----
(***************************************************************************)
(* Model of the die-roll program (src/code/die-roll/src/main.rs).          *)
(*                                                                         *)
(* A run draws one byte per trial from the entropy device, masks it to     *)
(* three bits, widens it to a u32, maps it to a die face, tallies the face *)
(* in an ordered map and finally prints the map.                           *)
(*                                                                         *)
(* A u32 is kept as two 16-bit limbs [hi, lo] (value = hi * 65536 + lo),   *)
(* so that the whole u32 range, 2^32 - 1 included, is representable and    *)
(* the carry out of bit 31 is visible.                                     *)
(*                                                                         *)
(* The f64 percentage is kept as the exact fraction num / den it is the    *)
(* correctly rounded value of.                                             *)
(***************************************************************************)
EXTENDS Integers, Sequences, FiniteSets, TLC

(* ---- bounds ---------------------------------------------------------- *)

\* Largest trial count explored with the nondeterministic device.
MaxTrials == 3

\* How far from 0 and from 65535 the limbs of the die_roll inputs range.
EdgeWidth == 6

(* ---- u32 arithmetic -------------------------------------------------- *)

\* Number of values of a 16-bit limb.
LimbBase == 65536

\* The u32 of a small natural number n (n < 2^31).
U32Of(n) == [hi |-> n \div LimbBase, lo |-> n % LimbBase]

\* Ord for u32, the order a BTreeMap<u32, _> keeps its keys in.
U32Lt(a, b) == a.hi < b.hi \/ (a.hi = b.hi /\ a.lo < b.lo)

\* a % m for a u32 a and 0 < m < 2^15: long division, high limb first.
U32Rem(a, m) == U32Of((((a.hi % m) * LimbBase) + a.lo) % m)

\* a + b on u32: the wrapped sum and whether the sum left the u32 range.
U32Add(a, b) ==
    LET lo == a.lo + b.lo
        hi == a.hi + b.hi + (lo \div LimbBase)
    IN  [val |-> [hi |-> hi % LimbBase, lo |-> lo % LimbBase],
         overflow |-> hi >= LimbBase]

\* a & b on bytes, bit by bit.
RECURSIVE BitAnd(_, _)
BitAnd(a, b) ==
    IF a = 0 \/ b = 0 THEN 0
    ELSE ((a % 2) * (b % 2)) + 2 * BitAnd(a \div 2, b \div 2)

(* ---- get_random_int -------------------------------------------------- *)

\* Every value a byte can take.
Bytes == 0..255

\* let mut buf = [0_u8; 4];
ZeroBuf == <<0, 0, 0, 0>>

\* Mutant: the mask keeps four bits.
MaskLowBits_four(b) == BitAnd(b, 15)

\* buf[0] &= 0b00000111;
MaskLowBits(b) == BitAnd(b, 7)

\* Mutant: the bytes are read big-endian.
from_le_bytes_big_endian(b) == [hi |-> b[2] + 256 * b[1], lo |-> b[4] + 256 * b[3]]

\* u32::from_le_bytes(buf): buf[0] is the least significant byte.
from_le_bytes(b) == [hi |-> b[3] + 256 * b[4], lo |-> b[1] + 256 * b[2]]

(* ---- die_roll -------------------------------------------------------- *)

\* Mutant: the offset is added before the remainder is taken.
die_roll_offset_first(random_int) ==
    LET s == U32Add(random_int, U32Of(1))
    IN  [val |-> U32Rem(s.val, 6), overflow |-> s.overflow]

\* random_int % 6 + 1
die_roll(random_int) == U32Add(U32Rem(random_int, 6), U32Of(1))

(* ---- frequency table ------------------------------------------------- *)

\* BTreeMap::new()
EmptyMap == [k \in {} |-> 0]

\* Mutant: a new entry starts at 1 and is then incremented.
Increment_insert_one(freq, face) ==
    LET withEntry == IF face \in DOMAIN freq THEN freq
                     ELSE [k \in DOMAIN freq \cup {face} |->
                              IF k = face THEN 1 ELSE freq[k]]
    IN  [withEntry EXCEPT ![face] = @ + 1]

\* Mutant: the entry is created but never incremented.
Increment_forgotten(freq, face) ==
    IF face \in DOMAIN freq THEN freq
    ELSE [k \in DOMAIN freq \cup {face} |-> IF k = face THEN 0 ELSE freq[k]]

\* let counter = frequency.entry(roll).or_insert(0); *counter += 1;
Increment(freq, face) ==
    LET withEntry == IF face \in DOMAIN freq THEN freq
                     ELSE [k \in DOMAIN freq \cup {face} |->
                              IF k = face THEN 0 ELSE freq[k]]
    IN  [withEntry EXCEPT ![face] = @ + 1]

\* Mutant: the iteration starts from the largest key.
FirstKey_largest(keys) ==
    CHOOSE k \in keys : \A o \in keys : o = k \/ U32Lt(o, k)

\* The key a BTreeMap iterator yields next: the smallest one left.
FirstKey(keys) ==
    CHOOSE k \in keys : \A o \in keys : o = k \/ U32Lt(k, o)

\* Mutant: the factor 100 is left out.
Percentage_no_factor(appearances, n) == [num |-> appearances, den |-> n]

\* 100.0 * appearances as f64 / trials as f64, as the exact fraction.
Percentage(appearances, n) == [num |-> 100 * appearances, den |-> n]

(* ---- state ----------------------------------------------------------- *)

VARIABLES
    pc,         \* position of the single thread
    trials,     \* the trial count
    i,          \* trials begun: position of the range iterator 0..trials
    frequency,  \* the table local to get_longrunning_frequency
    buf,        \* get_random_int: the four-byte buffer
    number,     \* loop body: the value get_random_int returned
    roll,       \* loop body: the face die_roll returned
    overflow,   \* whether the addition in die_roll left the u32 range
    returned,   \* what main received from get_longrunning_frequency
    iter,       \* main: keys the report loop has not yet consumed
    output,     \* lines written to standard output
    exitCode,   \* process exit code, meaningful once pc = "exit"
    opens,      \* device: File::open calls made
    reads,      \* device: read calls made
    consumed,   \* device: bytes delivered
    ioError,    \* device: an open or a read has failed
    observed    \* the distinct faces rolled, in order of first appearance

vars == <<pc, trials, i, frequency, buf, number, roll, overflow, returned,
          iter, output, exitCode, opens, reads, consumed, ioError, observed>>

device == <<opens, reads, consumed, ioError>>
locals == <<buf, number, roll, overflow>>
report == <<iter, output>>

Range(s) == {s[j] : j \in 1..Len(s)}

\* State at the first evaluation of the loop condition, for trial count n.
Start(n) ==
    /\ pc = "loop"
    /\ trials = n
    /\ i = 0
    /\ frequency = EmptyMap
    /\ buf = ZeroBuf
    /\ number = U32Of(0)
    /\ roll = U32Of(0)
    /\ overflow = FALSE
    /\ returned = [tag |-> "Pending", table |-> EmptyMap]
    /\ iter = {}
    /\ output = <<>>
    /\ exitCode = 0
    /\ opens = 0
    /\ reads = 0
    /\ consumed = 0
    /\ ioError = FALSE
    /\ observed = <<>>

\* main fixes trials at 10_000 (line 42); get_longrunning_frequency takes any
\* count, and the run is explored for every count up to MaxTrials.
Init == \E n \in 0..MaxTrials : Start(n)

(* ---- get_longrunning_frequency --------------------------------------- *)

\* for _ in 0..trials: another trial begins.
LoopNext ==
    /\ pc = "loop"
    /\ i < trials
    /\ i' = i + 1
    /\ pc' = "open"
    /\ UNCHANGED <<trials, frequency, locals, returned, report, exitCode,
                   device, observed>>

\* The range is exhausted: Ok(frequency) reaches main, which starts
\* iterating the table.
LoopDone ==
    /\ pc = "loop"
    /\ i >= trials
    /\ returned' = [tag |-> "Ok", table |-> frequency]
    /\ frequency' = EmptyMap
    /\ iter' = DOMAIN frequency
    /\ pc' = "report"
    /\ UNCHANGED <<trials, i, locals, output, exitCode, device, observed>>

\* Mutant: the error ends the loop and the counts so far are returned.
Propagate_partial ==
    /\ returned' = [tag |-> "Ok", table |-> frequency]
    /\ frequency' = EmptyMap
    /\ iter' = DOMAIN frequency
    /\ pc' = "report"
    /\ UNCHANGED <<trials, i, locals, output, exitCode, observed>>

\* Mutant: the error is swallowed and the loop goes on to the next trial.
Propagate_skip ==
    /\ pc' = "loop"
    /\ UNCHANGED <<trials, i, frequency, locals, returned, report, exitCode,
                   observed>>

\* The ? operators: the error leaves get_random_int and
\* get_longrunning_frequency (dropping the table) and main, and the
\* process exits with the failure code.
Propagate ==
    /\ returned' = [tag |-> "Err", table |-> EmptyMap]
    /\ frequency' = EmptyMap
    /\ pc' = "exit"
    /\ exitCode' = 1
    /\ UNCHANGED <<trials, i, locals, report, observed>>

(* ---- get_random_int: the device -------------------------------------- *)

\* File::open succeeds; the buffer is zeroed.
OpenOk ==
    /\ pc = "open"
    /\ opens' = opens + 1
    /\ buf' = ZeroBuf
    /\ pc' = "read"
    /\ UNCHANGED <<trials, i, frequency, number, roll, overflow, returned,
                   report, exitCode, reads, consumed, ioError, observed>>

\* File::open fails.
OpenFail ==
    /\ pc = "open"
    /\ opens' = opens + 1
    /\ ioError' = TRUE
    /\ UNCHANGED <<reads, consumed>>
    /\ Propagate

\* read delivers one byte into buf[0].
ReadByte ==
    /\ pc = "read"
    /\ \E b \in Bytes : buf' = [buf EXCEPT ![1] = b]
    /\ reads' = reads + 1
    /\ consumed' = consumed + 1
    /\ pc' = "mask"
    /\ UNCHANGED <<trials, i, frequency, number, roll, overflow, returned,
                   report, exitCode, opens, ioError, observed>>

\* read returns Ok(0): nothing is delivered, and the count is not looked at.
ReadNone ==
    /\ pc = "read"
    /\ reads' = reads + 1
    /\ pc' = "mask"
    /\ UNCHANGED <<trials, i, frequency, locals, returned, report, exitCode,
                   opens, consumed, ioError, observed>>

\* read fails.
ReadFail ==
    /\ pc = "read"
    /\ reads' = reads + 1
    /\ ioError' = TRUE
    /\ UNCHANGED <<opens, consumed>>
    /\ Propagate

\* buf[0] is masked, the buffer widened, Ok(res) returned to the loop.
MaskConvert ==
    /\ pc = "mask"
    /\ buf' = [buf EXCEPT ![1] = MaskLowBits(@)]
    /\ number' = from_le_bytes(buf')
    /\ pc' = "roll"
    /\ UNCHANGED <<trials, i, frequency, roll, overflow, returned, report,
                   exitCode, device, observed>>

(* ---- loop body ------------------------------------------------------- *)

\* let roll = die_roll(number);
Roll ==
    /\ pc = "roll"
    /\ roll' = die_roll(number).val
    /\ overflow' = die_roll(number).overflow
    /\ pc' = "tally"
    /\ UNCHANGED <<trials, i, frequency, buf, number, returned, report,
                   exitCode, device, observed>>

\* The face is counted; the iteration's locals go out of scope.
Tally ==
    /\ pc = "tally"
    /\ frequency' = Increment(frequency, roll)
    /\ observed' = IF roll \in Range(observed) THEN observed
                   ELSE Append(observed, roll)
    /\ buf' = ZeroBuf
    /\ number' = U32Of(0)
    /\ roll' = U32Of(0)
    /\ pc' = "loop"
    /\ UNCHANGED <<trials, i, overflow, returned, report, exitCode, device>>

(* ---- main: the report ------------------------------------------------ *)

\* One pass of the for loop over the table: one line is printed.
PrintLine ==
    /\ pc = "report"
    /\ iter # {}
    /\ LET value == FirstKey(iter)
           appearances == returned.table[value]
       IN  /\ output' = Append(output,
                  [value |-> value,
                   appearances |-> appearances,
                   percentage |-> Percentage(appearances, trials)])
           /\ iter' = iter \ {value}
    /\ UNCHANGED <<pc, trials, i, frequency, locals, returned, exitCode,
                   device, observed>>

\* The table is exhausted: main returns Ok(()).
ReportDone ==
    /\ pc = "report"
    /\ iter = {}
    /\ pc' = "exit"
    /\ exitCode' = 0
    /\ UNCHANGED <<trials, i, frequency, locals, returned, report, device,
                   observed>>

Next ==
    \/ LoopNext
    \/ LoopDone
    \/ OpenOk
    \/ OpenFail
    \/ ReadByte
    \/ ReadNone
    \/ ReadFail
    \/ MaskConvert
    \/ Roll
    \/ Tally
    \/ PrintLine
    \/ ReportDone

Spec == Init /\ [][Next]_vars

(* ---- the die_roll function on its own -------------------------------- *)

\* Limb values near both ends of the 16-bit range and around its middle.
EdgeLimbs ==
    (0..EdgeWidth) \cup ((LimbBase - 1 - EdgeWidth)..(LimbBase - 1))
        \cup {32767, 32768}

\* u32 inputs from 0 to 2^32 - 1 = [hi |-> 65535, lo |-> 65535].
DieInputs == {[hi |-> h, lo |-> l] : h \in EdgeLimbs, l \in EdgeLimbs}

\* The loop body about to call die_roll on an arbitrary u32.
InitDieRoll ==
    /\ pc = "roll"
    /\ number \in DieInputs
    /\ trials = 1
    /\ i = 1
    /\ frequency = EmptyMap
    /\ buf = ZeroBuf
    /\ roll = U32Of(0)
    /\ overflow = FALSE
    /\ returned = [tag |-> "Pending", table |-> EmptyMap]
    /\ iter = {}
    /\ output = <<>>
    /\ exitCode = 0
    /\ opens = 1
    /\ reads = 1
    /\ consumed = 1
    /\ ioError = FALSE
    /\ observed = <<>>

NextDieRoll == Roll

SpecDieRoll == InitDieRoll /\ [][NextDieRoll]_vars

(* ---- the run with a device cycling through 0..5 ---------------------- *)

\* read delivers the next value of the cycle 0, 1, 2, 3, 4, 5, 0, ...
ReadCycle ==
    /\ pc = "read"
    /\ buf' = [buf EXCEPT ![1] = consumed % 6]
    /\ reads' = reads + 1
    /\ consumed' = consumed + 1
    /\ pc' = "mask"
    /\ UNCHANGED <<trials, i, frequency, number, roll, overflow, returned,
                   report, exitCode, opens, ioError, observed>>

InitCycle == Start(6000)

NextCycle ==
    \/ LoopNext
    \/ LoopDone
    \/ OpenOk
    \/ ReadCycle
    \/ MaskConvert
    \/ Roll
    \/ Tally
    \/ PrintLine
    \/ ReportDone

SpecCycle == InitCycle /\ [][NextCycle]_vars

(* ---- properties ------------------------------------------------------ *)

\* The six die faces, as u32.
Faces == {U32Of(f) : f \in 1..6}

\* The sum of all counts of a table.
RECURSIVE SumOver(_, _)
SumOver(f, keys) ==
    IF keys = {} THEN 0
    ELSE LET k == CHOOSE k \in keys : TRUE
         IN  f[k] + SumOver(f, keys \ {k})

SumCounts(f) == SumOver(f, DOMAIN f)

\* C1: when get_longrunning_frequency(N) returns Ok, the counts of the
\* returned table add up to N.
C1_CountsSumToTrials ==
    returned.tag = "Ok" => SumCounts(returned.table) = trials

C1_Witness ==
    /\ returned.tag = "Ok"
    /\ trials >= 3
    /\ Cardinality(DOMAIN returned.table) >= 2
    /\ \E k \in DOMAIN returned.table : returned.table[k] >= 2

\* C2: once an open or a read of the entropy device has failed, no report
\* line has been or will be printed, and the process has ended with a
\* non-zero exit code.
C2_FailureAbortsBeforeOutput ==
    ioError => /\ output = <<>>
               /\ pc = "exit"
               /\ exitCode # 0
               /\ returned.tag = "Err"

C2_Witness ==
    /\ ioError
    /\ pc = "exit"
    /\ opens >= 2
    /\ observed # <<>>

\* C3: for every u32 r, 0 and 2^32 - 1 included, die_roll(r) is r mod 6 + 1,
\* lies in 1..6 and its addition does not leave the u32 range.
\* (65536 = 6 * 10922 + 4, so r = hi * 65536 + lo is congruent to
\* 4 * hi + lo modulo 6.)
C3_DieRollIsRemainderPlusOne ==
    pc = "tally" =>
        /\ roll.hi = 0
        /\ roll.lo \in 1..6
        /\ roll.lo = ((4 * number.hi + number.lo) % 6) + 1
        /\ ~overflow

C3_Witness ==
    /\ pc = "tally"
    /\ number = [hi |-> 65535, lo |-> 65535]
    /\ roll = U32Of(4)

\* C4: the value get_random_int returns is below 8: it is the byte now in
\* buf[0] (the byte just read, or 0 when the read delivered none) with its
\* top five bits cleared.
C4_ReturnsLowThreeBits ==
    [][(pc = "mask" /\ pc' = "roll") =>
          /\ number'.hi = 0
          /\ number'.lo = buf[1] % 8
          /\ number'.lo \in 0..7]_vars

C4_Witness ==
    /\ pc = "roll"
    /\ reads = 2
    /\ consumed = 1
    /\ number = U32Of(7)

\* C5: the values of the report lines are strictly ascending, whatever the
\* order the faces were rolled in.
C5_ReportAscending ==
    \A j \in 1..(Len(output) - 1) :
        U32Lt(output[j].value, output[j + 1].value)

C5_Witness ==
    /\ pc = "exit"
    /\ Len(output) >= 2
    /\ Len(observed) >= 2
    /\ U32Lt(observed[2], observed[1])

\* C6: the returned table has exactly the faces rolled as keys, each with a
\* count of at least 1; a successful run prints exactly one line for each of
\* them; with 0 trials the table is empty, nothing is printed and the run
\* succeeds.
C6_OneLinePerObservedFace ==
    /\ returned.tag = "Ok" =>
          /\ DOMAIN returned.table = Range(observed)
          /\ \A k \in DOMAIN returned.table : returned.table[k] >= 1
    /\ (pc = "exit" /\ returned.tag = "Ok") =>
          /\ exitCode = 0
          /\ {output[j].value : j \in 1..Len(output)} = Range(observed)
          /\ Len(output) = Len(observed)
    /\ (pc = "exit" /\ trials = 0) =>
          /\ returned.tag = "Ok"
          /\ DOMAIN returned.table = {}
          /\ output = <<>>
          /\ exitCode = 0

C6_Witness ==
    /\ pc = "exit"
    /\ exitCode = 0
    /\ trials >= 3
    /\ Len(output) = 2

\* C7: 6000 trials on a device cycling through 0..5 give the table
\* {1..6 -> 1000}, and every line reports 100 * 1000 / 6000 percent.
C7_CycleGivesThousandEach ==
    pc = "exit" =>
        /\ exitCode = 0
        /\ DOMAIN returned.table = Faces
        /\ \A k \in Faces : returned.table[k] = 1000
        /\ Len(output) = 6
        /\ \A j \in 1..Len(output) :
              /\ output[j].appearances = 1000
              /\ output[j].percentage.num * 6000
                    = 100 * 1000 * output[j].percentage.den

C7_Witness ==
    /\ pc = "exit"
    /\ Len(output) = 6
    /\ consumed = 6000

\* C8: each trial consumes exactly one byte of the device: between trials,
\* the bytes consumed equal the trials completed.
C8_OneBytePerTrial ==
    pc = "loop" => consumed = i

\* C9: the step on which an open or a read first fails is the step on which
\* the loop ends: the table then holds one increment per earlier trial, the
\* caller gets the error and no table, and no open or read follows.
C9_ShortCircuit ==
    [][/\ (~ioError /\ ioError') =>
             /\ SumCounts(frequency) = opens' - 1
             /\ i = opens'
             /\ returned'.tag = "Err"
             /\ DOMAIN returned'.table = {}
             /\ DOMAIN frequency' = {}
             /\ pc' = "exit"
       /\ ioError => (opens' = opens /\ reads' = reads /\ pc' = "exit")]_vars

C9_Witness ==
    /\ ioError
    /\ opens = 3
    /\ reads = 3
    /\ Len(observed) = 2

\* C10: over the values 0..7 that get_random_int can return, faces 1 and 2
\* have the two preimages {0, 6} and {1, 7} and faces 3, 4, 5, 6 have the single
\* preimages 2, 3, 4, 5: every face is hit, but not equally often.
Preimages(face) == {r \in 0..7 : die_roll(U32Of(r)).val = face}

C10_UnevenPreimages ==
    /\ \A f \in 1..6 :
          Preimages(U32Of(f)) = IF f <= 2 THEN {f - 1, f + 5} ELSE {f - 1}
    /\ pc = "tally" =>
          /\ roll \in Faces
          /\ number \in {U32Of(r) : r \in Preimages(roll)}
          /\ Cardinality(Preimages(roll)) = IF roll.lo <= 2 THEN 2 ELSE 1

C10_Witness ==
    /\ pc = "tally"
    /\ number = U32Of(6)
    /\ roll = U32Of(1)

====
